---- MODULE Spec2Model ----
(***************************************************************************)
(* Risk decision engine of health_risk_system (src/model.py) and the       *)
(* application around it: accounts and tables (src/database.py), login and *)
(* session (src/auth.py), router and assess page (src/app.py).             *)
(*                                                                         *)
(* Numbers.  Temperatures are fixed-point tenths of a degree (the form     *)
(* steps by 0.1): 39.5 is 395.  Probabilities and percentages are          *)
(* fixed-point hundredths: the probability 0.50 is 50, the percentage 80.0 *)
(* is 8000, and "x * 100" on a probability yields a percentage.            *)
(*                                                                         *)
(* A vitals dict is a record of its eight entries plus `absent`, the set   *)
(* of keys the dict does not hold; vitals[k] on an absent key raises       *)
(* KeyError.  A call's outcome is [kind |-> "ok", ...] for a returned      *)
(* triple and [kind |-> "raise", exc |-> e] for a propagated exception.    *)
(***************************************************************************)
EXTENDS Integers, Sequences, FiniteSets, TLC

\* ------------------------------------------------------------------ bounds
\* script-runner threads sharing the process
NumThreads == 2

\* model outputs are drawn from a grid of ProbSteps + 1 probability levels
ProbSteps == 2

\* runs of the body of load_model_and_scaler that are counted
MaxLoads == 2

\* rows of login_logs that are written
MaxLogs == 3

\* rows of users that are created
MaxUsers == 2

\* rows of assessments that are saved
MaxRows == 2

\* ------------------------------------------------------------------- state
VARIABLES
  modelFile,    \* what risk_model.h5 holds
  scalerFile,   \* what scaler.pkl holds
  cache,        \* the cache_resource entry of load_model_and_scaler
  lock,         \* holder of the entry's compute lock, 0 when free
  pc,           \* per thread: where its predict_risk call stands
  vitals,       \* per thread: the argument of the call
  art,          \* per thread: the (model, scaler) pair it loads or was handed
  out,          \* per thread: what model.predict did in this call
  result,       \* per thread: what the call returned or raised
  loadCount,    \* runs of the body of load_model_and_scaler so far
  reused,       \* some call was handed the stored entry
  score,        \* the local `score` of the last _rule_based_predict run alone
  abnormal,     \* per thread: what check_abnormal_vitals returned or raised
  kept,         \* per thread: an earlier call's record and results, held by the caller
  net,          \* the loaded network, as far as it was asked: final_input -> outcome
  session,      \* st.session_state of the browser session: key -> value
  users,        \* rows of table users, in id order
  patients,     \* rows of table patients, in id order
  login_logs,   \* rows of table login_logs, in id order
  assessments,  \* rows of table assessments, in id order
  shown,        \* the page function the last script run of main called
  ret           \* what the last call of login_user, create_user or register_user returned

\* the state of the application around the decision engine
appVars == <<session, users, patients, login_logs, assessments, shown, ret>>

\* the state of the decision engine and of its callers
engineVars ==
  <<modelFile, scalerFile, cache, lock, pc, vitals, art, out, result,
    loadCount, reused, score, abnormal, kept, net>>

vars ==
  <<modelFile, scalerFile, cache, lock, pc, vitals, art, out, result,
    loadCount, reused, score, abnormal, kept, net, session, users, patients,
    login_logs, assessments, shown, ret>>

\* --------------------------------------------------------------- constants
None == "None"

\* fixed-point denominator of probabilities and percentages (the `* 100`)
FP == 100

\* the percentage x.0
Pct(x) == x * FP

Keys ==
  {"respiratory_rate", "oxygen_saturation", "o2_scale", "systolic_bp",
   "heart_rate", "temperature", "consciousness", "on_oxygen"}

Tiers == {"Low", "Medium", "High"}

RISK_LABELS_reversed == (0 :> "High") @@ (1 :> "Medium") @@ (2 :> "Low")

RISK_LABELS == (0 :> "Low") @@ (1 :> "Medium") @@ (2 :> "High")

Ok(tier, conf, probs) ==
  [kind |-> "ok", tier |-> tier, confidence |-> conf, probabilities |-> probs]

Raise(e) == [kind |-> "raise", exc |-> e]

ProbDict(l, m, h) == [Low |-> l, Medium |-> m, High |-> h]

\* vitals[k] is defined
HasKey(v, k) == k \notin v.absent

\* --------------------------------------------------- _rule_based_predict
rr_score_flipped(rr) ==
  IF rr > 12 \/ rr > 25 THEN 3 ELSE IF rr > 20 THEN 1 ELSE 0

rr_score(rr) ==
  IF rr < 12 \/ rr > 25 THEN 3 ELSE IF rr > 20 THEN 1 ELSE 0

spo2_score_both(spo2) ==
  (IF spo2 < 90 THEN 4 ELSE 0) + (IF spo2 < 94 THEN 2 ELSE 0)

spo2_score_weight(spo2) ==
  IF spo2 < 90 THEN 2 ELSE IF spo2 < 94 THEN 2 ELSE 0

spo2_score_le(spo2) ==
  IF spo2 <= 90 THEN 4 ELSE IF spo2 <= 94 THEN 2 ELSE 0

spo2_score(spo2) ==
  IF spo2 < 90 THEN 4 ELSE IF spo2 < 94 THEN 2 ELSE 0

sbp_score_low3(sbp) ==
  IF sbp < 100 \/ sbp > 180 THEN 3 ELSE IF sbp > 160 THEN 1 ELSE 0

sbp_score_swapped(sbp) ==
  IF sbp < 90 \/ sbp > 180 THEN 1 ELSE IF sbp > 160 \/ sbp < 100 THEN 3 ELSE 0

sbp_score(sbp) ==
  IF sbp < 90 \/ sbp > 180 THEN 3 ELSE IF sbp > 160 \/ sbp < 100 THEN 1 ELSE 0

hr_score_ge(hr) ==
  IF hr <= 40 \/ hr >= 130 THEN 3 ELSE IF hr > 100 \/ hr < 60 THEN 1 ELSE 0

hr_score(hr) ==
  IF hr < 40 \/ hr > 130 THEN 3 ELSE IF hr > 100 \/ hr < 60 THEN 1 ELSE 0

\* temp in tenths of a degree: 35 -> 350, 39.5 -> 395, 38 -> 380, 36 -> 360
temp_score(temp) ==
  IF temp < 350 \/ temp > 395 THEN 3 ELSE IF temp > 380 \/ temp < 360 THEN 1 ELSE 0

consciousness_score_heavy(c) ==
  IF c = "U" THEN 8 ELSE IF c = "P" THEN 3 ELSE IF c = "V" THEN 1 ELSE 0

consciousness_score(c) ==
  IF c = "U" THEN 5 ELSE IF c = "P" THEN 3 ELSE IF c = "V" THEN 1 ELSE 0

on_oxygen_score(o) == IF o = 1 THEN 1 ELSE 0

\* the keys _rule_based_predict reads, in the order it reads them
RuleKeys ==
  <<"respiratory_rate", "oxygen_saturation", "systolic_bp", "heart_rate",
    "temperature", "consciousness", "on_oxygen">>

\* `score` kept at module level and never set back to 0
rule_score_global(v) ==
  score + rr_score(v.respiratory_rate) + spo2_score(v.oxygen_saturation)
        + sbp_score(v.systolic_bp) + hr_score(v.heart_rate)
        + temp_score(v.temperature) + consciousness_score(v.consciousness)
        + on_oxygen_score(v.on_oxygen)

\* score after the seven `score +=` statements (all keys present)
rule_score(v) ==
  LET s0 == 0
      s1 == s0 + rr_score(v.respiratory_rate)
      s2 == s1 + spo2_score(v.oxygen_saturation)
      s3 == s2 + sbp_score(v.systolic_bp)
      s4 == s3 + hr_score(v.heart_rate)
      s5 == s4 + temp_score(v.temperature)
      s6 == s5 + consciousness_score(v.consciousness)
      s7 == s6 + on_oxygen_score(v.on_oxygen)
  IN  s7

rule_band_typo(s) ==
  IF s >= 8 THEN
    [risk_label |-> "High", probs |-> ProbDict(Pct(5), Pct(15), Pct(800))]
  ELSE IF s >= 4 THEN
    [risk_label |-> "Medium", probs |-> ProbDict(Pct(20), Pct(65), Pct(15))]
  ELSE
    [risk_label |-> "Low", probs |-> ProbDict(Pct(80), Pct(15), Pct(5))]

rule_band_strict(s) ==
  IF s > 8 THEN
    [risk_label |-> "High", probs |-> ProbDict(Pct(5), Pct(15), Pct(80))]
  ELSE IF s > 4 THEN
    [risk_label |-> "Medium", probs |-> ProbDict(Pct(20), Pct(65), Pct(15))]
  ELSE
    [risk_label |-> "Low", probs |-> ProbDict(Pct(80), Pct(15), Pct(5))]

rule_band(s) ==
  IF s >= 8 THEN
    [risk_label |-> "High", probs |-> ProbDict(Pct(5), Pct(15), Pct(80))]
  ELSE IF s >= 4 THEN
    [risk_label |-> "Medium", probs |-> ProbDict(Pct(20), Pct(65), Pct(15))]
  ELSE
    [risk_label |-> "Low", probs |-> ProbDict(Pct(80), Pct(15), Pct(5))]

rule_based_predict(v) ==
  IF \E i \in 1..Len(RuleKeys) : ~HasKey(v, RuleKeys[i]) THEN Raise("KeyError")
  ELSE LET b == rule_band(rule_score(v))
       IN  Ok(b.risk_label, b.probs[b.risk_label], b.probs)

\* ---------------------------------------------------------- _model_predict
\* the keys of numerical_input, in the order they are read
ModelKeys ==
  <<"respiratory_rate", "oxygen_saturation", "o2_scale", "systolic_bp",
    "heart_rate", "temperature">>

SeqMax(s) == CHOOSE x \in {s[i] : i \in 1..Len(s)} : \A j \in 1..Len(s) : s[j] <= x

\* np.argmax: the first index holding the maximum, 0-based
argmax(s) ==
  (CHOOSE i \in 1..Len(s) :
      /\ \A j \in 1..Len(s) : s[j] <= s[i]
      /\ \A j \in 1..(i - 1) : s[j] < s[i]) - 1

\* An inference outcome: model.predict(final_input, verbose=0)[0] either
\* raises or yields a vector of probabilities.
NoOut == [called |-> FALSE, raises |-> FALSE, probs |-> <<>>]
OutRaise == [called |-> TRUE, raises |-> TRUE, probs |-> <<>>]
OutVec(p) == [called |-> TRUE, raises |-> FALSE, probs |-> p]

\* the statements of the try block up to the call of model.predict succeed
reaches_inference(v, model, scaler) ==
  /\ \A i \in 1..Len(ModelKeys) : HasKey(v, ModelKeys[i])
  /\ scaler = "scaler"
  /\ HasKey(v, "consciousness")
  /\ HasKey(v, "on_oxygen")
  /\ model # None

\* the body of the try block; o is what model.predict does when it is reached
model_try(v, model, scaler, o) ==
  IF \E i \in 1..Len(ModelKeys) : ~HasKey(v, ModelKeys[i]) THEN Raise("KeyError")
  ELSE IF scaler = None THEN Raise("AttributeError")
  ELSE IF scaler # "scaler" THEN Raise("ValueError")
  ELSE IF ~HasKey(v, "consciousness") \/ ~HasKey(v, "on_oxygen") THEN Raise("KeyError")
  ELSE IF model = None THEN Raise("AttributeError")
  ELSE IF o.raises THEN Raise("InferenceError")
  ELSE LET probs == o.probs
           pred_class == argmax(probs)
       IN  IF pred_class \notin DOMAIN RISK_LABELS THEN Raise("KeyError")
           ELSE IF Len(probs) < 3 THEN Raise("IndexError")
           ELSE Ok(RISK_LABELS[pred_class], SeqMax(probs) * 100,
                   ProbDict(probs[1] * 100, probs[2] * 100, probs[3] * 100))

model_predict_blend(v, model, scaler, o) ==
  LET r == model_try(v, model, scaler, o)
      rb == rule_based_predict(v)
  IN  IF r.kind = "raise" THEN rb
      ELSE IF rb.kind = "ok" THEN Ok(rb.tier, r.confidence, r.probabilities)
      ELSE r

model_predict(v, model, scaler, o) ==
  LET r == model_try(v, model, scaler, o)
  IN  IF r.kind = "raise" THEN rule_based_predict(v) ELSE r

\* line 108: what scaler.transform makes of the six numbers.  The fitted
\* parameters are data of scaler.pkl; the term keeps the scaler and its
\* argument and nothing else.
transform(scaler, numerical_input) == [by |-> scaler, of |-> numerical_input]

consciousness_encoded_avpu(v) ==
  IF v.consciousness = "A" THEN 0
  ELSE IF v.consciousness = "V" THEN 1
  ELSE IF v.consciousness = "P" THEN 2 ELSE 3

\* line 109
consciousness_encoded(v) == IF v.consciousness # "A" THEN 1 ELSE 0

\* lines 99-113: the 8-wide row handed to model.predict, as the scaled six
\* numbers followed by the two flags
final_input(v, scaler) ==
  <<transform(scaler, [i \in 1..Len(ModelKeys) |-> v[ModelKeys[i]]]),
    consciousness_encoded(v), v.on_oxygen>>

\* ------------------------------------------------------------ predict_risk
predict_risk_default(v, model, scaler, o) ==
  IF model # None /\ scaler # None
    THEN model_predict(v, model, scaler, o)
    ELSE Ok("Low", Pct(0), ProbDict(Pct(0), Pct(0), Pct(0)))

predict_risk_raises(v, model, scaler, o) ==
  IF model # None /\ scaler # None
    THEN model_predict(v, model, scaler, o)
    ELSE Raise("RuntimeError")

predict_risk(v, model, scaler, o) ==
  IF model # None /\ scaler # None
    THEN model_predict(v, model, scaler, o)
    ELSE rule_based_predict(v)

\* --------------------------------------------------- check_abnormal_vitals
\* the module-level table of normal ranges; temperature in tenths
VITAL_RANGES ==
  [respiratory_rate |-> <<12, 20>>, oxygen_saturation |-> <<95, 100>>,
   o2_scale |-> <<0, 2>>, systolic_bp |-> <<90, 140>>,
   heart_rate |-> <<60, 100>>, temperature |-> <<361, 375>>]

\* the keys of `checks`
CheckKeys ==
  {"respiratory_rate", "oxygen_saturation", "systolic_bp", "heart_rate",
   "temperature"}

checks_from_ranges(v) ==
  [k \in DOMAIN VITAL_RANGES |-> <<v[k], VITAL_RANGES[k][1], VITAL_RANGES[k][2]>>]

\* lines 180-186: key -> (value, low, high)
checks(v) ==
  [respiratory_rate |-> <<v.respiratory_rate, 12, 20>>,
   oxygen_saturation |-> <<v.oxygen_saturation, 95, 100>>,
   systolic_bp |-> <<v.systolic_bp, 90, 140>>,
   heart_rate |-> <<v.heart_rate, 60, 100>>,
   temperature |-> <<v.temperature, 361, 375>>]

\* str() of a bound inside the f-string: 60 -> "60", 36.1 (361) -> "36.1"
bound_text(key, n) ==
  IF key = "temperature"
    THEN ToString(n \div 10) \o "." \o ToString(n % 10)
    ELSE ToString(n)

\* f"{low}-{high}"
normal_text(key, low, high) == bound_text(key, low) \o "-" \o bound_text(key, high)

finding_status_ge(value, low, high) ==
  IF value <= low THEN "low" ELSE IF value >= high THEN "high" ELSE "none"

\* lines 188-191: the branch taken for one entry of `checks`
finding_status(value, low, high) ==
  IF value < low THEN "low" ELSE IF value > high THEN "high" ELSE "none"

\* the dict `abnormal` after the loop, or the KeyError of building `checks`
check_abnormal_vitals(v) ==
  IF \E k \in CheckKeys : ~HasKey(v, k) THEN Raise("KeyError")
  ELSE LET c == checks(v)
           flagged == {k \in DOMAIN c : finding_status(c[k][1], c[k][2], c[k][3]) # "none"}
       IN  [kind |-> "ok",
            abnormal |->
              [k \in flagged |->
                 [value |-> c[k][1],
                  status |-> finding_status(c[k][1], c[k][2], c[k][3]),
                  normal |-> normal_text(k, c[k][2], c[k][3])]]]

\* ------------------------------------------------- load_model_and_scaler
\* What the files risk_model.h5 and scaler.pkl hold.  "corrupt": the load
\* raises (also: tensorflow cannot be imported).  "unfit": the pickle loads
\* to an object whose transform raises on a 6-wide input.
ModelFiles == {"absent", "corrupt", "ok"}
ScalerFiles == {"absent", "corrupt", "ok", "unfit"}

\* lines 62-67: os.path.exists, load_model, except Exception: pass
load_model(file) == IF file = "ok" THEN "model" ELSE None

\* lines 70-75: os.path.exists, pickle.load, except Exception: pass
load_scaler(file) ==
  IF file = "ok" THEN "scaler" ELSE IF file = "unfit" THEN "unfit_scaler" ELSE None

\* ------------------------------------------------------ @st.cache_resource
\* The decorator keeps one entry for the argument-less function: a call
\* returns the entry when there is one; otherwise it takes the entry's
\* compute lock, looks again, runs the function and stores what it returned.
Unresolved == [resolved |-> FALSE, model |-> None, scaler |-> None]

cache_hit_never(c) == FALSE

cache_hit(c) == c.resolved

lock_ignored(l) == TRUE

lock_free(l) == l = 0

\* ------------------------------------------------------------------ inputs
Baseline ==
  [respiratory_rate |-> 16, oxygen_saturation |-> 98, o2_scale |-> 1,
   systolic_bp |-> 120, heart_rate |-> 80, temperature |-> 370,
   consciousness |-> "A", on_oxygen |-> 0, absent |-> {}]

AVPU == {"A", "V", "P", "U"}

\* the admissible domain: the bounds of the form's widgets
InDomain(v) ==
  /\ v.absent = {}
  /\ v.respiratory_rate \in 0..60
  /\ v.oxygen_saturation \in 50..100
  /\ v.o2_scale \in 0..5
  /\ v.systolic_bp \in 50..300
  /\ v.heart_rate \in 20..250
  /\ v.temperature \in 300..450
  /\ v.consciousness \in AVPU
  /\ v.on_oxygen \in {0, 1}

ValidSamples ==
  {[Baseline EXCEPT !.oxygen_saturation = s, !.temperature = t,
                    !.consciousness = c, !.on_oxygen = x] :
     s \in {98, 88}, t \in {370, 400}, c \in {"A", "U"}, x \in {0, 1}}

MissingSamples == {[Baseline EXCEPT !.absent = {k}] : k \in Keys}

OutOfDomainSamples ==
  {[Baseline EXCEPT !.temperature = 290],
   [Baseline EXCEPT !.temperature = 460],
   [Baseline EXCEPT !.oxygen_saturation = 40],
   [Baseline EXCEPT !.consciousness = "X"]}

\* the records the spec and the seed data name
BaselineSpO2_85 == [Baseline EXCEPT !.oxygen_saturation = 85]

SeedHigh ==
  [respiratory_rate |-> 28, oxygen_saturation |-> 88, o2_scale |-> 3,
   systolic_bp |-> 90, heart_rate |-> 130, temperature |-> 395,
   consciousness |-> "P", on_oxygen |-> 1, absent |-> {}]

Scenarios == {Baseline, BaselineSpO2_85, SeedHigh}

CallVitals == ValidSamples \cup MissingSamples \cup OutOfDomainSamples

Threads == 1..NumThreads

ProbGrid == {(k * FP) \div ProbSteps : k \in 0..ProbSteps}

Widths == 1..4

Outs == {OutRaise} \cup {OutVec(p) : p \in UNION {[1..w -> ProbGrid] : w \in Widths}}

NoResult == [kind |-> "none"]

\* a dict without keys
EmptyMap == [k \in {} |-> k]

\* nothing was called yet
NoCall == [call |-> "none", args |-> <<>>, ok |-> FALSE, message |-> <<>>, via |-> {}]

\* no script run of main yet
NoRun == [page |-> "nothing", as |-> "nobody", rerun |-> FALSE]

\* the caller holds nothing from an earlier call
NoKept == [has |-> FALSE, v |-> Baseline, r |-> NoResult, a |-> NoResult,
           between |-> FALSE]

InitEngine ==
  /\ modelFile \in ModelFiles
  /\ scalerFile \in ScalerFiles
  /\ cache = Unresolved
  /\ lock = 0
  /\ pc = [t \in Threads |-> "idle"]
  /\ vitals = [t \in Threads |-> Baseline]
  /\ art = [t \in Threads |-> Unresolved]
  /\ out = [t \in Threads |-> NoOut]
  /\ result = [t \in Threads |-> NoResult]
  /\ loadCount = 0
  /\ reused = FALSE
  /\ score = 0
  /\ abnormal = [t \in Threads |-> NoResult]
  /\ kept = [t \in Threads |-> NoKept]
  /\ net = EmptyMap

\* a fresh database (initialize_database) and a fresh browser session
InitStore ==
  /\ session = EmptyMap
  /\ users = <<>>
  /\ patients = <<>>
  /\ login_logs = <<>>
  /\ assessments = <<>>
  /\ shown = NoRun
  /\ ret = NoCall

Init == InitEngine /\ InitStore

\* ----------------------------------------------------------------- actions
\* a caller enters predict_risk(v)
Call(t, VS) ==
  /\ pc[t] = "idle"
  /\ \E v \in VS : vitals' = [vitals EXCEPT ![t] = v]
  /\ pc' = [pc EXCEPT ![t] = "lookup"]
  /\ art' = [art EXCEPT ![t] = Unresolved]
  /\ out' = [out EXCEPT ![t] = NoOut]
  /\ result' = [result EXCEPT ![t] = NoResult]
  /\ abnormal' = [abnormal EXCEPT ![t] = NoResult]
  /\ UNCHANGED <<modelFile, scalerFile, cache, lock, loadCount, reused, score, kept>>

  /\ UNCHANGED <<net, appVars>>
\* line 86, the decorator's first look at the entry, without the lock
CacheRead(t) ==
  /\ pc[t] = "lookup"
  /\ IF cache_hit(cache)
       THEN /\ art' = [art EXCEPT ![t] = cache]
            /\ pc' = [pc EXCEPT ![t] = "dispatch"]
            /\ reused' = TRUE
       ELSE /\ pc' = [pc EXCEPT ![t] = "acquire"]
            /\ UNCHANGED <<art, reused>>
  /\ UNCHANGED <<modelFile, scalerFile, cache, lock, vitals, out, result, loadCount, score, abnormal, kept>>

  /\ UNCHANGED <<net, appVars>>
\* the miss path takes the compute lock
Acquire(t) ==
  /\ pc[t] = "acquire"
  /\ lock_free(lock)
  /\ lock' = t
  /\ pc' = [pc EXCEPT ![t] = "recheck"]
  /\ UNCHANGED <<modelFile, scalerFile, cache, vitals, art, out, result,
                 loadCount, reused, score, abnormal, kept>>

  /\ UNCHANGED <<net, appVars>>
\* under the lock: look again, and run the function on a second miss
Recheck(t) ==
  /\ pc[t] = "recheck"
  /\ IF cache_hit(cache)
       THEN /\ art' = [art EXCEPT ![t] = cache]
            /\ pc' = [pc EXCEPT ![t] = "dispatch"]
            /\ lock' = IF lock = t THEN 0 ELSE lock
            /\ reused' = TRUE
            /\ UNCHANGED loadCount
       ELSE /\ loadCount < MaxLoads
            /\ loadCount' = loadCount + 1
            /\ pc' = [pc EXCEPT ![t] = "load_model"]
            /\ UNCHANGED <<art, lock, reused>>
  /\ UNCHANGED <<modelFile, scalerFile, cache, vitals, out, result, score, abnormal, kept>>

  /\ UNCHANGED <<net, appVars>>
\* lines 58-67
LoadModel(t) ==
  /\ pc[t] = "load_model"
  /\ art' = [art EXCEPT ![t] = [resolved |-> FALSE, model |-> load_model(modelFile),
                                scaler |-> None]]
  /\ pc' = [pc EXCEPT ![t] = "load_scaler"]
  /\ UNCHANGED <<modelFile, scalerFile, cache, lock, vitals, out, result,
                 loadCount, reused, score, abnormal, kept>>

  /\ UNCHANGED <<net, appVars>>
\* lines 69-75
LoadScaler(t) ==
  /\ pc[t] = "load_scaler"
  /\ art' = [art EXCEPT ![t].scaler = load_scaler(scalerFile)]
  /\ pc' = [pc EXCEPT ![t] = "store"]
  /\ UNCHANGED <<modelFile, scalerFile, cache, lock, vitals, out, result,
                 loadCount, reused, score, abnormal, kept>>

  /\ UNCHANGED <<net, appVars>>
\* line 77: the returned pair becomes the entry; the lock is released
Store(t) ==
  /\ pc[t] = "store"
  /\ cache' = [art[t] EXCEPT !.resolved = TRUE]
  /\ art' = [art EXCEPT ![t].resolved = TRUE]
  /\ lock' = IF lock = t THEN 0 ELSE lock
  /\ pc' = [pc EXCEPT ![t] = "dispatch"]
  /\ UNCHANGED <<modelFile, scalerFile, vitals, out, result, loadCount, reused, score, abnormal, kept>>

  /\ UNCHANGED <<net, appVars>>
\* as Dispatch, but the consciousness flag is written back into the record
Dispatch_encodes(t, OS) ==
  /\ pc[t] = "dispatch"
  /\ LET v == vitals[t]
         m == art[t].model
         s == art[t].scaler
     IN  IF m # None /\ s # None /\ reaches_inference(v, m, s)
           THEN \E o \in OS :
                  /\ out' = [out EXCEPT ![t] = o]
                  /\ result' = [result EXCEPT ![t] = predict_risk(v, m, s, o)]
                  /\ vitals' = [vitals EXCEPT ![t].consciousness =
                                  IF v.consciousness # "A" THEN "1" ELSE "0"]
           ELSE /\ out' = [out EXCEPT ![t] = NoOut]
                /\ result' = [result EXCEPT ![t] = predict_risk(v, m, s, NoOut)]
                /\ vitals' = vitals
  /\ pc' = [pc EXCEPT ![t] = "done"]
  /\ UNCHANGED <<modelFile, scalerFile, cache, lock, art, loadCount, reused, score,
                 abnormal, kept>>

  /\ UNCHANGED <<net, appVars>>
\* lines 88-91 with the callee they select, run on the thread's own data
Dispatch(t, OS) ==
  /\ pc[t] = "dispatch"
  /\ LET v == vitals[t]
         m == art[t].model
         s == art[t].scaler
     IN  IF m # None /\ s # None /\ reaches_inference(v, m, s)
           THEN \E o \in OS :
                  /\ out' = [out EXCEPT ![t] = o]
                  /\ result' = [result EXCEPT ![t] = predict_risk(v, m, s, o)]
           ELSE /\ out' = [out EXCEPT ![t] = NoOut]
                /\ result' = [result EXCEPT ![t] = predict_risk(v, m, s, NoOut)]
  /\ pc' = [pc EXCEPT ![t] = "done"]
  /\ UNCHANGED <<modelFile, scalerFile, cache, lock, vitals, art, loadCount, reused, score, abnormal, kept>>

  /\ UNCHANGED <<net, appVars>>
\* app.py line 214: the caller runs the detector on the same record
Detect(t) ==
  /\ pc[t] \in {"done", "ruled"}
  /\ result[t].kind = "ok"
  /\ abnormal' = [abnormal EXCEPT ![t] = check_abnormal_vitals(vitals[t])]
  /\ pc' = [pc EXCEPT ![t] = "detected"]
  /\ UNCHANGED <<modelFile, scalerFile, cache, lock, vitals, art, out, result,
                 loadCount, reused, score, kept>>

  /\ UNCHANGED <<net, appVars>>
\* the caller is finished with the outcome but holds on to the record, the
\* triple and the findings it got
Keep(t) ==
  /\ pc[t] \in {"done", "ruled", "detected"}
  /\ result[t].kind = "ok"
  /\ kept' = [kept EXCEPT ![t] = [has |-> TRUE, v |-> vitals[t], r |-> result[t],
                                  a |-> abnormal[t], between |-> FALSE]]
  /\ pc' = [pc EXCEPT ![t] = "idle"]
  /\ vitals' = [vitals EXCEPT ![t] = Baseline]
  /\ art' = [art EXCEPT ![t] = Unresolved]
  /\ out' = [out EXCEPT ![t] = NoOut]
  /\ result' = [result EXCEPT ![t] = NoResult]
  /\ abnormal' = [abnormal EXCEPT ![t] = NoResult]
  /\ UNCHANGED <<modelFile, scalerFile, cache, lock, loadCount, reused, score>>

  /\ UNCHANGED <<net, appVars>>
\* the caller has the outcome and may call again
Return(t) ==
  /\ pc[t] \in {"done", "detected"}
  /\ pc' = [pc EXCEPT ![t] = "idle"]
  /\ vitals' = [vitals EXCEPT ![t] = Baseline]
  /\ art' = [art EXCEPT ![t] = Unresolved]
  /\ out' = [out EXCEPT ![t] = NoOut]
  /\ result' = [result EXCEPT ![t] = NoResult]
  /\ abnormal' = [abnormal EXCEPT ![t] = NoResult]
  /\ UNCHANGED <<modelFile, scalerFile, cache, lock, loadCount, reused, score, kept>>

  /\ UNCHANGED <<net, appVars>>
\* the environment writes, replaces or removes the artifact files
ReplaceArtifacts ==
  /\ \E mf \in ModelFiles, sf \in ScalerFiles :
       /\ <<mf, sf>> # <<modelFile, scalerFile>>
       /\ modelFile' = mf
       /\ scalerFile' = sf
  /\ UNCHANGED <<cache, lock, pc, vitals, art, out, result, loadCount, reused, score, abnormal, kept>>

  /\ UNCHANGED <<net, appVars>>
\* one caller at a time, every input
Next ==
  \/ Call(1, CallVitals)
  \/ CacheRead(1)
  \/ Acquire(1)
  \/ Recheck(1)
  \/ LoadModel(1)
  \/ LoadScaler(1)
  \/ Store(1)
  \/ Dispatch(1, Outs)
  \/ Detect(1)
  \/ Return(1)
  \/ ReplaceArtifacts

Spec == Init /\ [][Next]_vars

\* concurrent callers, one input
ConcVitals == {Baseline}

ConcOuts == {OutVec(<<0, FP, 0>>)}

NextConc ==
  \/ \E t \in Threads :
       \/ Call(t, ConcVitals)
       \/ CacheRead(t)
       \/ Acquire(t)
       \/ Recheck(t)
       \/ LoadModel(t)
       \/ LoadScaler(t)
       \/ Store(t)
       \/ Dispatch(t, ConcOuts)
       \/ Detect(t)
       \/ Return(t)
  \/ ReplaceArtifacts

SpecConc == Init /\ [][NextConc]_vars

\* two callers at once: one holds on to its outcome, the other keeps calling
FrameVitals == {BaselineSpO2_85, SeedHigh}

NextFrame ==
  \/ Call(1, FrameVitals)
  \/ Call(2, FrameVitals)
  \/ \E t \in {1, 2} :
       \/ CacheRead(t)
       \/ Acquire(t)
       \/ Recheck(t)
       \/ LoadModel(t)
       \/ LoadScaler(t)
       \/ Store(t)
       \/ Dispatch(t, ConcOuts)
       \/ Detect(t)
  \/ Keep(1)
  \/ Return(2)
  \/ ReplaceArtifacts

SpecFrame == Init /\ [][NextFrame]_vars

\* _rule_based_predict called on its own, over the thresholds of every rule
RuleGrid ==
  {[respiratory_rate |-> r, oxygen_saturation |-> s, o2_scale |-> 1,
    systolic_bp |-> b, heart_rate |-> h, temperature |-> t,
    consciousness |-> c, on_oxygen |-> x, absent |-> {}] :
     r \in {11, 12, 20, 21, 25, 26},
     s \in {89, 90, 93, 94},
     b \in {89, 90, 99, 100, 160, 161, 180, 181},
     h \in {39, 40, 59, 60, 100, 101, 130, 131},
     t \in {349, 350, 359, 360, 380, 381, 395, 396},
     c \in AVPU,
     x \in {0, 1}}

\* the values on either side of every bound of the detector
DetectGrid ==
  {[respiratory_rate |-> r, oxygen_saturation |-> s, o2_scale |-> o,
    systolic_bp |-> b, heart_rate |-> h, temperature |-> t,
    consciousness |-> c, on_oxygen |-> x, absent |-> {}] :
     r \in {11, 12, 20, 21},
     s \in {94, 95, 100},
     o \in {1, 3},
     b \in {89, 90, 140, 141},
     h \in {59, 60, 100, 101},
     t \in {360, 361, 375, 376},
     c \in {"A", "U"},
     x \in {0, 1}}

RuleInputs == RuleGrid \cup DetectGrid \cup Scenarios

RuleCall(VS) ==
  /\ pc[1] = "idle"
  /\ \E v \in VS : vitals' = [vitals EXCEPT ![1] = v]
  /\ pc' = [pc EXCEPT ![1] = "rule"]
  /\ result' = [result EXCEPT ![1] = NoResult]
  /\ abnormal' = [abnormal EXCEPT ![1] = NoResult]
  /\ UNCHANGED <<modelFile, scalerFile, cache, lock, art, out, loadCount, reused,
                 score, kept>>

  /\ UNCHANGED <<net, appVars>>
\* lines 134-174 in one step
RuleClassify ==
  /\ pc[1] = "rule"
  /\ score' = rule_score(vitals[1])
  /\ result' = [result EXCEPT ![1] = rule_based_predict(vitals[1])]
  /\ pc' = [pc EXCEPT ![1] = "ruled"]
  /\ UNCHANGED <<modelFile, scalerFile, cache, lock, vitals, art, out, loadCount, reused, abnormal, kept>>

  /\ UNCHANGED <<net, appVars>>
\* the caller drops the outcome; a call made since the kept one is noted
RuleReturn ==
  /\ pc[1] \in {"ruled", "detected"}
  /\ pc' = [pc EXCEPT ![1] = "idle"]
  /\ vitals' = [vitals EXCEPT ![1] = Baseline]
  /\ result' = [result EXCEPT ![1] = NoResult]
  /\ abnormal' = [abnormal EXCEPT ![1] = NoResult]
  /\ score' = 0
  /\ kept' = [kept EXCEPT ![1].between = kept[1].has]
  /\ UNCHANGED <<modelFile, scalerFile, cache, lock, art, out, loadCount, reused>>

  /\ UNCHANGED <<net, appVars>>
InitRule == Init /\ modelFile = "absent" /\ scalerFile = "absent"

NextRule == RuleCall(RuleInputs) \/ RuleClassify \/ Detect(1) \/ RuleReturn

SpecRule == InitRule /\ [][NextRule]_vars

\* repeated direct calls, the caller holding on to one earlier outcome
DetInputs == ValidSamples \cup Scenarios

NextDet ==
  \/ RuleCall(DetInputs)
  \/ RuleClassify
  \/ Detect(1)
  \/ Keep(1)
  \/ RuleReturn
  \/ ReplaceArtifacts

SpecDet == Init /\ [][NextDet]_vars

\* lines 88-91 with a loaded network that is a function of its input: an
\* input it was asked before gets the outcome it got before
Infer(t, OS) ==
  /\ pc[t] = "dispatch"
  /\ LET v == vitals[t]
         m == art[t].model
         s == art[t].scaler
     IN  IF m # None /\ s # None /\ reaches_inference(v, m, s)
           THEN LET x == final_input(v, s)
                IN  \E o \in OS :
                      /\ x \in DOMAIN net => o = net[x]
                      /\ net' = IF x \in DOMAIN net THEN net ELSE (x :> o) @@ net
                      /\ out' = [out EXCEPT ![t] = o]
                      /\ result' = [result EXCEPT ![t] = predict_risk(v, m, s, o)]
           ELSE /\ out' = [out EXCEPT ![t] = NoOut]
                /\ result' = [result EXCEPT ![t] = predict_risk(v, m, s, NoOut)]
                /\ net' = net
  /\ pc' = [pc EXCEPT ![t] = "done"]
  /\ UNCHANGED <<modelFile, scalerFile, cache, lock, vitals, art, loadCount, reused,
                 score, abnormal, kept>>
  /\ UNCHANGED appVars

\* ------------------------------------------------------------- database.py
\* A text that the code looks into (full names, e-mail addresses) is the
\* sequence of its characters; user names and passwords are strings.  A
\* table is the sequence of its rows in id order; ids are never reused, so
\* the next id is the number of rows plus one.  fetchone() yields a sequence
\* of no row (None) or one row.
Roles == {"patient", "doctor", "admin"}

Returns(call, args, ok, message, via) ==
  [call |-> call, args |-> args, ok |-> ok, message |-> message, via |-> via]

create_user_keeps_row(tbl, pats, username, password_hash, full_name, email, role) ==
  LET user_id == Len(tbl) + 1
      row == [id |-> user_id, username |-> username, password_hash |-> password_hash,
              full_name |-> full_name, email |-> email, role |-> role, is_active |-> 1]
  IN  IF role \notin Roles
        THEN [users |-> tbl, patients |-> pats, ok |-> FALSE,
              message |-> "CHECK constraint failed"]
      ELSE IF \E i \in 1..Len(tbl) : tbl[i].username = username
        THEN [users |-> tbl, patients |-> pats, ok |-> FALSE,
              message |-> "Username already exists"]
      ELSE IF \E i \in 1..Len(tbl) : tbl[i].email = email
        THEN [users |-> Append(tbl, row), patients |-> pats, ok |-> FALSE,
              message |-> "Email already exists"]
      ELSE [users |-> Append(tbl, row),
            patients |-> IF role = "patient"
                           THEN Append(pats, [id |-> Len(pats) + 1, user_id |-> user_id])
                           ELSE pats,
            ok |-> TRUE, message |-> "User created successfully"]

\* lines 110-130.  The INSERT fails on the CHECK of role, then on the
\* UNIQUE index of username, then on that of email; a failed INSERT is never
\* committed, so the tables stay as they were.
create_user(tbl, pats, username, password_hash, full_name, email, role) ==
  LET user_id == Len(tbl) + 1
      row == [id |-> user_id, username |-> username, password_hash |-> password_hash,
              full_name |-> full_name, email |-> email, role |-> role, is_active |-> 1]
  IN  IF role \notin Roles
        THEN [users |-> tbl, patients |-> pats, ok |-> FALSE,
              message |-> "CHECK constraint failed"]
      ELSE IF \E i \in 1..Len(tbl) : tbl[i].username = username
        THEN [users |-> tbl, patients |-> pats, ok |-> FALSE,
              message |-> "Username already exists"]
      ELSE IF \E i \in 1..Len(tbl) : tbl[i].email = email
        THEN [users |-> tbl, patients |-> pats, ok |-> FALSE,
              message |-> "Email already exists"]
      ELSE [users |-> Append(tbl, row),
            patients |-> IF role = "patient"
                           THEN Append(pats, [id |-> Len(pats) + 1, user_id |-> user_id])
                           ELSE pats,
            ok |-> TRUE, message |-> "User created successfully"]

get_user_by_username_any(tbl, username) ==
  LET hits == SelectSeq(tbl, LAMBDA r : r.username = username)
  IN  IF hits = <<>> THEN <<>> ELSE <<hits[1]>>

\* lines 133-140
get_user_by_username(tbl, username) ==
  LET hits == SelectSeq(tbl, LAMBDA r : r.username = username /\ r.is_active = 1)
  IN  IF hits = <<>> THEN <<>> ELSE <<hits[1]>>

\* lines 151-158
log_login(logs, user_id, action) ==
  Append(logs, [id |-> Len(logs) + 1, user_id |-> user_id, action |-> action])

save_assessment_rule(rows, patient_id, v, risk_level, risk_score) ==
  Append(rows, [id |-> Len(rows) + 1, patient_id |-> patient_id,
                respiratory_rate |-> v.respiratory_rate,
                oxygen_saturation |-> v.oxygen_saturation,
                o2_scale |-> v.o2_scale, systolic_bp |-> v.systolic_bp,
                heart_rate |-> v.heart_rate, temperature |-> v.temperature,
                consciousness |-> v.consciousness, on_oxygen |-> v.on_oxygen,
                risk_level |-> rule_based_predict(v).tier,
                risk_score |-> rule_based_predict(v).confidence])

\* lines 163-179
save_assessment(rows, patient_id, v, risk_level, risk_score) ==
  Append(rows, [id |-> Len(rows) + 1, patient_id |-> patient_id,
                respiratory_rate |-> v.respiratory_rate,
                oxygen_saturation |-> v.oxygen_saturation,
                o2_scale |-> v.o2_scale, systolic_bp |-> v.systolic_bp,
                heart_rate |-> v.heart_rate, temperature |-> v.temperature,
                consciousness |-> v.consciousness, on_oxygen |-> v.on_oxygen,
                risk_level |-> risk_level, risk_score |-> risk_score])

\* ----------------------------------------------------------------- auth.py
\* hashlib.sha256(x).hexdigest(), taken as free of collisions
sha256(x) == <<"sha256", x>>

\* lines 13-17: "salt:hash", held as the parts a split on ":" gives
hash_password(salt, password) == <<salt, sha256(salt \o password)>>

\* lines 20-27: a stored value that does not split in two makes the
\* unpacking raise, which the except clause turns into False
verify_password(password, stored_hash) ==
  IF Len(stored_hash) # 2 THEN FALSE
  ELSE sha256(stored_hash[1] \o password) = stored_hash[2]

Whitespace == {" "}

\* not full_name.strip()
blank(text) == \A i \in 1..Len(text) : text[i] \in Whitespace

\* lines 30-45
validate_registration(username, password, confirm_password, full_name, email, role) ==
  (IF Len(username) < 3 THEN <<"Username must be at least 3 characters.">> ELSE <<>>)
  \o (IF Len(password) < 6 THEN <<"Password must be at least 6 characters.">> ELSE <<>>)
  \o (IF password # confirm_password THEN <<"Passwords do not match.">> ELSE <<>>)
  \o (IF blank(full_name) THEN <<"Full name is required.">> ELSE <<>>)
  \o (IF \A i \in 1..Len(email) : email[i] # "@" THEN <<"Invalid email address.">>
      ELSE IF \A i \in 1..Len(email) : email[i] # "." THEN <<"Invalid email address.">>
      ELSE <<>>)
  \o (IF role \notin {"patient", "doctor", "admin"} THEN <<"Invalid role selected.">>
      ELSE <<>>)

\* lines 48-58; salt is what secrets.token_hex hands out in the call
register_user(tbl, pats, salt, username, password, confirm_password, full_name, email, role) ==
  LET errors == validate_registration(username, password, confirm_password,
                                      full_name, email, role)
      made == create_user(tbl, pats, username, hash_password(salt, password),
                          full_name, email, role)
  IN  IF errors # <<>>
        THEN [users |-> tbl, patients |-> pats, ok |-> FALSE, message |-> errors,
              via |-> {}]
      ELSE IF made.ok
        THEN [users |-> made.users, patients |-> made.patients, ok |-> TRUE,
              message |-> <<"Registration successful! Please log in.">>,
              via |-> {"create_user"}]
      ELSE [users |-> made.users, patients |-> made.patients, ok |-> FALSE,
            message |-> <<made.message>>, via |-> {"create_user"}]

keys_to_clear_short == {"logged_in", "username", "full_name", "role", "email"}

\* line 90
keys_to_clear == {"logged_in", "user_id", "username", "full_name", "role", "email"}

\* lines 74-79
login_session(S, user) ==
  [k \in DOMAIN S \cup {"logged_in", "user_id", "username", "full_name", "role", "email"} |->
     IF k = "logged_in" THEN TRUE
     ELSE IF k = "user_id" THEN user.id
     ELSE IF k \in {"username", "full_name", "role", "email"} THEN user[k]
     ELSE S[k]]

\* lines 61-82
login_user(S, tbl, logs, username, password) ==
  LET user == get_user_by_username(tbl, username)
  IN  IF username = "" \/ password = ""
        THEN [session |-> S, login_logs |-> logs, ok |-> FALSE,
              message |-> "Please enter username and password."]
      ELSE IF user = <<>>
        THEN [session |-> S, login_logs |-> logs, ok |-> FALSE,
              message |-> "Invalid username or password."]
      ELSE IF ~verify_password(password, user[1].password_hash)
        THEN [session |-> S, login_logs |-> logs, ok |-> FALSE,
              message |-> "Invalid username or password."]
      ELSE [session |-> login_session(S, user[1]),
            login_logs |-> log_login(logs, user[1].id, "login"),
            ok |-> TRUE, message |-> "Login successful!"]

\* lines 85-93
logout_user(S, logs) ==
  [session |-> [k \in DOMAIN S \ keys_to_clear |-> S[k]],
   login_logs |-> IF "user_id" \in DOMAIN S
                    THEN log_login(logs, S["user_id"], "logout")
                    ELSE logs]

\* lines 96-98
is_logged_in(S) == IF "logged_in" \in DOMAIN S THEN S["logged_in"] ELSE FALSE

\* st.session_state.get(k)
Get(S, k) == IF k \in DOMAIN S THEN <<S[k]>> ELSE <<>>

\* lines 101-111; None is the empty sequence, a .get that finds nothing too
get_current_user(S) ==
  IF ~is_logged_in(S) THEN <<>>
  ELSE <<[id |-> Get(S, "user_id"), username |-> Get(S, "username"),
          full_name |-> Get(S, "full_name"), role |-> Get(S, "role"),
          email |-> Get(S, "email")]>>

\* one caller, records that differ in consciousness and on_oxygen only
EncVitals ==
  {[Baseline EXCEPT !.consciousness = c, !.on_oxygen = x] : c \in AVPU, x \in {0, 1}}

EncOuts == {OutRaise, OutVec(<<FP, 0, 0>>), OutVec(<<0, 0, FP>>)}

NextEnc ==
  \/ Call(1, EncVitals)
  \/ CacheRead(1)
  \/ Acquire(1)
  \/ Recheck(1)
  \/ LoadModel(1)
  \/ LoadScaler(1)
  \/ Store(1)
  \/ Infer(1, EncOuts)
  \/ Keep(1)
  \/ Return(1)

SpecEnc == Init /\ [][NextEnc]_vars

\* ------------------------------------------------- the seeded application
\* seed_demo_data.py lines 12-17 (full names and addresses shortened), with
\* the salt each hash_password call drew
SeedUsers ==
  <<[username |-> "patient1", password |-> "pass123", salt |-> "s1",
     full_name |-> <<"J", "K">>, email |-> <<"j", "@", "d", ".", "c">>,
     role |-> "patient"],
    [username |-> "patient2", password |-> "pass123", salt |-> "s2",
     full_name |-> <<"G", "W">>, email |-> <<"g", "@", "d", ".", "c">>,
     role |-> "patient"],
    [username |-> "doctor1", password |-> "pass123", salt |-> "s3",
     full_name |-> <<"A", "O">>, email |-> <<"a", "@", "d", ".", "c">>,
     role |-> "doctor"],
    [username |-> "admin", password |-> "admin123", salt |-> "s4",
     full_name |-> <<"S", "A">>, email |-> <<"s", "@", "d", ".", "c">>,
     role |-> "admin"]>>

\* seed_demo_data.py lines 19-21: the tables after the first n create_user calls
RECURSIVE seed(_)
seed(n) ==
  IF n = 0 THEN [users |-> <<>>, patients |-> <<>>]
  ELSE LET s == seed(n - 1)
           u == SeedUsers[n]
           made == create_user(s.users, s.patients, u.username,
                               hash_password(u.salt, u.password), u.full_name,
                               u.email, u.role)
       IN  [users |-> made.users, patients |-> made.patients]

\* the seeded database, no model files, a fresh browser session
InitSeeded ==
  /\ InitEngine
  /\ modelFile = "absent"
  /\ scalerFile = "absent"
  /\ session = EmptyMap
  /\ users = seed(Len(SeedUsers)).users
  /\ patients = seed(Len(SeedUsers)).patients
  /\ login_logs = <<>>
  /\ assessments = <<>>
  /\ shown = NoRun
  /\ ret = NoCall

\* what is typed into the login form
LoginNames == {"", "patient1", "admin", "nobody"}

LoginPasswords == {"", "pass123", "admin123"}

\* login_user(username, password) called in the session
LoginCall ==
  /\ Len(login_logs) < MaxLogs
  /\ \E username \in LoginNames, password \in LoginPasswords :
       LET r == login_user(session, users, login_logs, username, password)
       IN  /\ session' = r.session
           /\ login_logs' = r.login_logs
           /\ ret' = Returns("login_user", <<username, password>>, r.ok, r.message, {})
  /\ UNCHANGED <<users, patients, assessments, shown>>
  /\ UNCHANGED engineVars

\* logout_user() called in the session
LogoutCall ==
  /\ Len(login_logs) < MaxLogs \/ "user_id" \notin DOMAIN session
  /\ LET r == logout_user(session, login_logs)
     IN  /\ session' = r.session
         /\ login_logs' = r.login_logs
  /\ ret' = Returns("logout_user", <<>>, TRUE, "", {})
  /\ UNCHANGED <<users, patients, assessments, shown>>
  /\ UNCHANGED engineVars

\* an operator of the database clears is_active of a user row
Deactivate ==
  /\ \E i \in 1..Len(users) :
       /\ users[i].is_active = 1
       /\ users[i].username \in LoginNames
       /\ users' = [users EXCEPT ![i].is_active = 0]
  /\ UNCHANGED <<session, patients, login_logs, assessments, shown, ret>>
  /\ UNCHANGED engineVars

NextAuth == LoginCall \/ LogoutCall \/ Deactivate

SpecAuth == InitSeeded /\ [][NextAuth]_vars

\* ------------------------------------------------------- app.py, the router
\* lines 122-139: the page keys of a role's sidebar, in order
pages(role) ==
  IF role = "patient" THEN <<"assess", "dashboard", "history">>
  ELSE IF role = "doctor" THEN <<"doctor_home", "patients", "search">>
  ELSE <<"admin", "all_patients", "audit">>

route_by_page(role, current_page) ==
  IF current_page = "assess" THEN "page_assess"
  ELSE IF current_page = "dashboard" THEN "page_patient_dashboard"
  ELSE IF current_page = "history" THEN "page_patient_history"
  ELSE IF current_page = "doctor_home" THEN "page_doctor_home"
  ELSE IF current_page = "patients" THEN "page_doctor_patients"
  ELSE IF current_page = "search" THEN "page_doctor_search"
  ELSE IF current_page = "admin" THEN "page_admin_dashboard"
  ELSE IF current_page = "all_patients" THEN "page_all_patients"
  ELSE IF current_page = "audit" THEN "page_audit_logs"
  ELSE "nothing"

\* lines 583-605: the page function main calls, "nothing" when no branch fits
route(role, current_page) ==
  IF role = "patient"
    THEN IF current_page = "assess" THEN "page_assess"
         ELSE IF current_page = "dashboard" THEN "page_patient_dashboard"
         ELSE IF current_page = "history" THEN "page_patient_history"
         ELSE "nothing"
  ELSE IF role = "doctor"
    THEN IF current_page = "doctor_home" THEN "page_doctor_home"
         ELSE IF current_page = "patients" THEN "page_doctor_patients"
         ELSE IF current_page = "search" THEN "page_doctor_search"
         ELSE "nothing"
  ELSE IF role = "admin"
    THEN IF current_page = "admin" THEN "page_admin_dashboard"
         ELSE IF current_page = "all_patients" THEN "page_all_patients"
         ELSE IF current_page = "audit" THEN "page_audit_logs"
         ELSE "nothing"
  ELSE "nothing"

\* what the user did to start the script run
NoClick == [kind |-> "none"]

LoginClick(username, password) ==
  [kind |-> "login", username |-> username, password |-> password]

NavClick(page_key) == [kind |-> "nav", key |-> page_key]

LogoutClick == [kind |-> "logout"]

\* lines 103-156; rerun says that st.rerun() cut the script run short
render_sidebar(S, logs, click) ==
  LET role == get_current_user(S)[1].role[1]
      keys == pages(role)
      S1 == IF "current_page" \in DOMAIN S THEN S
            ELSE ("current_page" :> keys[1]) @@ S
  IN  IF click.kind = "nav" /\ \E i \in 1..Len(keys) : keys[i] = click.key
        THEN [session |-> [S1 EXCEPT !["current_page"] = click.key],
              login_logs |-> logs, rerun |-> TRUE, current_page |-> click.key]
      ELSE IF click.kind = "logout"
        THEN [session |-> logout_user(S1, logs).session,
              login_logs |-> logout_user(S1, logs).login_logs,
              rerun |-> TRUE, current_page |-> S1["current_page"]]
      ELSE [session |-> S1, login_logs |-> logs, rerun |-> FALSE,
            current_page |-> S1["current_page"]]

\* lines 575-605 with page_login's login button (lines 60-68): one script run
main(S, tbl, logs, click) ==
  IF ~is_logged_in(S)
    THEN IF click.kind = "login" /\ click.username # "" /\ click.password # ""
           THEN LET r == login_user(S, tbl, logs, click.username, click.password)
                IN  [session |-> r.session, login_logs |-> r.login_logs,
                     shown |-> [page |-> "page_login", as |-> "nobody", rerun |-> r.ok]]
           ELSE [session |-> S, login_logs |-> logs,
                 shown |-> [page |-> "page_login", as |-> "nobody", rerun |-> FALSE]]
    ELSE LET role == get_current_user(S)[1].role[1]
             sb == render_sidebar(S, logs, click)
         IN  IF sb.rerun
               THEN [session |-> sb.session, login_logs |-> sb.login_logs,
                     shown |-> [page |-> "nothing", as |-> role, rerun |-> TRUE]]
               ELSE [session |-> sb.session, login_logs |-> sb.login_logs,
                     shown |-> [page |-> route(role, sb.current_page), as |-> role,
                                rerun |-> FALSE]]

\* a script run of main started by the click; no predict_risk call is under way
Main(click) ==
  /\ pc[1] = "idle"
  /\ LET r == main(session, users, login_logs, click)
     IN  /\ session' = r.session
         /\ login_logs' = r.login_logs
         /\ shown' = r.shown
  /\ UNCHANGED <<users, patients, assessments, ret>>
  /\ UNCHANGED engineVars

\* the pending rerun, or a reload of the page
RunMain == Main(NoClick)

\* the credentials tried on the login page
NavLogins ==
  {<<"patient1", "pass123">>, <<"patient2", "pass123">>, <<"doctor1", "pass123">>,
   <<"admin", "admin123">>, <<"admin", "pass123">>}

\* the login button of the page last rendered
ClickLogin ==
  /\ ~shown.rerun
  /\ shown.page = "page_login"
  /\ Len(login_logs) < MaxLogs
  /\ \E c \in NavLogins : Main(LoginClick(c[1], c[2]))

\* a navigation button of the sidebar last rendered
ClickNav ==
  /\ ~shown.rerun
  /\ shown.as \in Roles
  /\ \E i \in 1..Len(pages(shown.as)) : Main(NavClick(pages(shown.as)[i]))

\* the logout button of the sidebar last rendered
ClickLogout ==
  /\ ~shown.rerun
  /\ shown.as \in Roles
  /\ Len(login_logs) < MaxLogs
  /\ Main(LogoutClick)

NextNav == RunMain \/ ClickLogin \/ ClickNav \/ ClickLogout

SpecNav == InitSeeded /\ [][NextNav]_vars

\* ------------------------------------------------------------ registration
\* what callers pass to create_user and what is typed into the register form
RegNames == {"amy", "bob", "cyd"}

RegEmails == {<<"a", "@", "x", ".", "y">>, <<"b", "@", "x", ".", "y">>}

RegRoles == {"patient", "doctor", "nurse"}

\* a form that validates
GoodForm ==
  [username |-> "amy", password |-> "secret1", confirm_password |-> "secret1",
   full_name |-> <<"A">>, email |-> <<"a", "@", "x", ".", "y">>, role |-> "patient"]

\* forms that validate, and forms with one or two fields that do not
Forms ==
  {[GoodForm EXCEPT !.username = n, !.email = e, !.role = r] :
     n \in RegNames, e \in RegEmails, r \in {"patient", "doctor"}}
  \cup {[GoodForm EXCEPT !.username = "al"],
        [GoodForm EXCEPT !.password = "pw", !.confirm_password = "pw"],
        [GoodForm EXCEPT !.confirm_password = "secret2"],
        [GoodForm EXCEPT !.full_name = <<" ">>],
        [GoodForm EXCEPT !.email = <<"a", "x", ".", "y">>],
        [GoodForm EXCEPT !.email = <<"a", "@", "x">>],
        [GoodForm EXCEPT !.role = "nurse"],
        [GoodForm EXCEPT !.username = "al", !.role = "nurse"]}

\* create_user(...) called on the database
CreateUserCall ==
  /\ Len(users) < MaxUsers
  /\ \E username \in RegNames, email \in RegEmails, role \in RegRoles :
       LET r == create_user(users, patients, username,
                            hash_password("s1", "secret1"), <<"A">>, email, role)
       IN  /\ users' = r.users
           /\ patients' = r.patients
           /\ ret' = Returns("create_user", <<username, email, role>>, r.ok,
                             r.message, {})
  /\ UNCHANGED <<session, login_logs, assessments, shown>>
  /\ UNCHANGED engineVars

\* register_user(...) called with what the form holds
RegisterUserCall ==
  /\ Len(users) < MaxUsers
  /\ \E f \in Forms :
       LET r == register_user(users, patients, "s2", f.username, f.password,
                              f.confirm_password, f.full_name, f.email, f.role)
       IN  /\ users' = r.users
           /\ patients' = r.patients
           /\ ret' = Returns("register_user",
                             <<f.username, f.password, f.confirm_password,
                               f.full_name, f.email, f.role>>,
                             r.ok, r.message, r.via)
  /\ UNCHANGED <<session, login_logs, assessments, shown>>
  /\ UNCHANGED engineVars

NextReg == CreateUserCall \/ RegisterUserCall

SpecReg == InitRule /\ [][NextReg]_vars

\* ------------------------------------------------------ app.py, page_assess
\* lines 200-213: the form of the assess page is submitted; the script run
\* builds the record and enters predict_risk
Submit ==
  /\ ~shown.rerun
  /\ shown.page = "page_assess"
  /\ is_logged_in(session)
  /\ Len(assessments) < MaxRows
  /\ Call(1, FrameVitals)

\* line 217: the row is saved under the id of the user the page started with
Save ==
  /\ pc[1] = "detected"
  /\ abnormal[1].kind = "ok"
  /\ assessments' = save_assessment(assessments, get_current_user(session)[1].id[1],
                                    vitals[1], result[1].tier, result[1].confidence)
  /\ pc' = [pc EXCEPT ![1] = "idle"]
  /\ vitals' = [vitals EXCEPT ![1] = Baseline]
  /\ art' = [art EXCEPT ![1] = Unresolved]
  /\ out' = [out EXCEPT ![1] = NoOut]
  /\ result' = [result EXCEPT ![1] = NoResult]
  /\ abnormal' = [abnormal EXCEPT ![1] = NoResult]
  /\ UNCHANGED <<modelFile, scalerFile, cache, lock, loadCount, reused, score, kept, net>>
  /\ UNCHANGED <<session, users, patients, login_logs, shown, ret>>

\* the seeded database, the model files there or not, a fresh browser session
InitAssess ==
  /\ InitEngine
  /\ modelFile \in {"absent", "ok"}
  /\ scalerFile = "ok"
  /\ session = EmptyMap
  /\ users = seed(Len(SeedUsers)).users
  /\ patients = seed(Len(SeedUsers)).patients
  /\ login_logs = <<>>
  /\ assessments = <<>>
  /\ shown = NoRun
  /\ ret = NoCall

NextAssess ==
  \/ RunMain
  \/ ClickLogin
  \/ ClickLogout
  \/ Submit
  \/ CacheRead(1)
  \/ Acquire(1)
  \/ Recheck(1)
  \/ LoadModel(1)
  \/ LoadScaler(1)
  \/ Store(1)
  \/ Dispatch(1, ConcOuts)
  \/ Detect(1)
  \/ Save

SpecAssess == InitAssess /\ [][NextAssess]_vars

\* ------------------------------------------------------------------ claims
Done(t) == pc[t] = "done"

Returned(t) == Done(t) /\ result[t].kind = "ok"

ModelAnswered(t) ==
  Returned(t) /\ out[t].called /\ result[t] # rule_based_predict(vitals[t])

\* C1: for vitals in the admissible domain, whichever backend answers, the
\* call returns a tier among Low, Medium, High, probabilities keyed exactly
\* by Low, Medium, High, and every probability and the confidence in [0,100].
C1_OutputContract ==
  \A t \in Threads :
    (Done(t) /\ InDomain(vitals[t])) =>
      /\ result[t].kind = "ok"
      /\ result[t].tier \in Tiers
      /\ DOMAIN result[t].probabilities = Tiers
      /\ \A k \in Tiers : result[t].probabilities[k] \in 0..Pct(100)
      /\ result[t].confidence \in 0..Pct(100)

C1_Witness ==
  \E t \in Threads :
    /\ ModelAnswered(t)
    /\ InDomain(vitals[t])
    /\ result[t].tier = "High"
    /\ result[t].confidence = Pct(100)

\* C2: with the model backend unavailable, predict_risk returns exactly what
\* _rule_based_predict returns for the same record.
C2_FallbackIsRuleBased ==
  \A t \in Threads :
    (Done(t) /\ (art[t].model = None \/ art[t].scaler = None)) =>
      result[t] = rule_based_predict(vitals[t])

C2_Witness ==
  \E t \in Threads :
    /\ Returned(t)
    /\ art[t].model = None
    /\ art[t].scaler = None
    /\ result[t].tier = "High"

\* some part of the model backend failed in this call
BackendFailed(t) ==
  \/ art[t].model = None
  \/ art[t].scaler # "scaler"
  \/ out[t].called /\ out[t].raises
  \/ out[t].called /\ ~out[t].raises /\ Len(out[t].probs) # 3

\* C3: for valid vitals and every model-backend failure (artifact missing,
\* load raising, transform raising, inference raising or returning a wrong
\* shape) predict_risk raises nothing and returns the rule-based result.
C3_FailureAbsorbed ==
  \A t \in Threads :
    (Done(t) /\ InDomain(vitals[t]) /\ BackendFailed(t)) =>
      /\ result[t].kind = "ok"
      /\ result[t] = rule_based_predict(vitals[t])

\* C4: a record holding a value outside the admissible domain fails with a
\* validation error and no prediction is produced.
C4_OutOfDomainRejected ==
  \A t \in Threads :
    (Done(t) /\ vitals[t].absent = {} /\ ~InDomain(vitals[t])) =>
      result[t].kind = "raise"

\* C5: a record lacking one of the six numeric fields or consciousness is
\* rejected with an error on both paths and never yields a classification.
C5_MissingFieldRejected ==
  \A t \in Threads :
    (Done(t) /\
       \E k \in {ModelKeys[i] : i \in 1..Len(ModelKeys)} \cup {"consciousness"} :
          ~HasKey(vitals[t], k)) =>
      result[t].kind = "raise"

\* C6: the model is asked only when both artifacts were loaded; with the
\* model but no scaler, or the scaler but no model, the call returns the
\* rule-based result as it does when neither is there.
C6_BothArtifactsNeeded ==
  \A t \in Threads :
    Done(t) =>
      /\ out[t].called => (art[t].model # None /\ art[t].scaler # None)
      /\ ((art[t].model = None) # (art[t].scaler = None)) =>
           (~out[t].called /\ result[t] = rule_based_predict(vitals[t]))

C6_Witness ==
  \E t \in Threads :
    /\ Returned(t)
    /\ art[t].model = "model"
    /\ art[t].scaler = None
    /\ result[t].tier = "Medium"

\* C7: the body of load_model_and_scaler runs at most once; a call that has
\* its artifacts found the entry resolved; a resolved entry, loaded or
\* failed, never changes and is never loaded again.
C7_LoadOnce ==
  /\ [](loadCount <= 1)
  /\ [](\A t \in Threads : Done(t) => cache.resolved)
  /\ [][cache.resolved => (cache' = cache /\ loadCount' = loadCount)]_vars

C7_Witness ==
  /\ reused
  /\ loadCount = 1
  /\ cache.resolved
  /\ cache.model = None
  /\ cache.scaler = None
  /\ modelFile = "ok"
  /\ scalerFile = "ok"
  /\ \E t \in Threads : Returned(t) /\ ~out[t].called

\* the threads inside the miss path, between taking the lock and storing
Loading == {t \in Threads : pc[t] \in {"recheck", "load_model", "load_scaler", "store"}}

\* C8: callers arriving before the first load completed wait for the one
\* load in flight; every call works on the stored pair, the same for all,
\* and no interleaving runs the load twice.
C8_ConcurrentConverge ==
  /\ Cardinality(Loading) <= 1
  /\ loadCount <= 1
  /\ \A t \in Threads :
       pc[t] \in {"dispatch", "done"} => (cache.resolved /\ art[t] = cache)
  /\ \A t, u \in Threads :
       (pc[t] \in {"dispatch", "done"} /\ pc[u] \in {"dispatch", "done"}) =>
         art[t] = art[u]

C8_Witness ==
  \E t, u \in Threads :
    /\ t # u
    /\ pc[t] = "load_scaler"
    /\ pc[u] = "acquire"
    /\ lock = t

\* the three triples the rule-based classifier can return
CannedTriples ==
  {Ok("High", 8000, ProbDict(500, 1500, 8000)),
   Ok("Medium", 6500, ProbDict(2000, 6500, 1500)),
   Ok("Low", 8000, ProbDict(8000, 1500, 500))}

\* the whole triple comes from the vector this call's inference produced
WhollyModel(t) ==
  /\ out[t].called
  /\ ~out[t].raises
  /\ Len(out[t].probs) >= 3
  /\ result[t].probabilities.Low = out[t].probs[1] * 100
  /\ result[t].probabilities.Medium = out[t].probs[2] * 100
  /\ result[t].probabilities.High = out[t].probs[3] * 100
  /\ result[t].confidence = result[t].probabilities[result[t].tier]
  /\ \A k \in Tiers : result[t].probabilities[k] <= result[t].confidence

WhollyRule(t) ==
  /\ result[t] \in CannedTriples
  /\ result[t] = rule_based_predict(vitals[t])

\* C9: the returned triple is wholly the model's or wholly the rule-based
\* classifier's, never a mix, also when the model path fails part-way.
C9_NeverBlended ==
  \A t \in Threads :
    Returned(t) =>
      /\ WhollyModel(t) \/ WhollyRule(t)
      /\ (out[t].called /\ out[t].raises) => WhollyRule(t)

C9_Witness ==
  \E t \in Threads :
    /\ Returned(t)
    /\ vitals[t].consciousness = "U"
    /\ vitals[t].oxygen_saturation = 88
    /\ WhollyModel(t)
    /\ result[t].tier = "Low"
    /\ ~WhollyRule(t)

\* the scoring table, one row per category
TableRR(x) == IF x \in 12..20 THEN 0 ELSE IF x \in 21..25 THEN 1 ELSE 3
TableSpO2(x) == IF x >= 94 THEN 0 ELSE IF x \in 90..93 THEN 2 ELSE 4
TableSBP(x) == IF x \in 100..160 THEN 0 ELSE IF x \in (90..99) \cup (161..180) THEN 1 ELSE 3
TableHR(x) == IF x \in 60..100 THEN 0 ELSE IF x \in (40..59) \cup (101..130) THEN 1 ELSE 3
TableTemp(x) == IF x \in 360..380 THEN 0 ELSE IF x \in (350..359) \cup (381..395) THEN 1 ELSE 3
TableAVPU(c) == CASE c = "U" -> 5 [] c = "P" -> 3 [] c = "V" -> 1 [] c = "A" -> 0
TableO2(x) == IF x = 1 THEN 1 ELSE 0

\* C10: the rule-based score is the sum of one contribution per category,
\* the severe threshold taking precedence, never both increments of a row.
C10_ScoreIsTableSum ==
  pc[1] = "ruled" =>
    score = TableRR(vitals[1].respiratory_rate)
          + TableSpO2(vitals[1].oxygen_saturation)
          + TableSBP(vitals[1].systolic_bp)
          + TableHR(vitals[1].heart_rate)
          + TableTemp(vitals[1].temperature)
          + TableAVPU(vitals[1].consciousness)
          + TableO2(vitals[1].on_oxygen)

C10_Witness ==
  /\ pc[1] = "ruled"
  /\ vitals[1].oxygen_saturation = 89
  /\ vitals[1].respiratory_rate = 26
  /\ vitals[1].consciousness = "U"
  /\ score = 22

Ruled == pc[1] = "ruled"

ProbSum(r) == r.probabilities.Low + r.probabilities.Medium + r.probabilities.High

\* C11: the rule-based result is fixed by the score band: >= 8 High with
\* (5, 15, 80), 4..7 Medium with (20, 65, 15), < 4 Low with (80, 15, 5); the
\* confidence is the chosen tier's probability and the three sum to 100.
C11_BandDecidesResult ==
  Ruled =>
    /\ score >= 8 => result[1] = Ok("High", 8000, ProbDict(500, 1500, 8000))
    /\ (score >= 4 /\ score < 8) =>
         result[1] = Ok("Medium", 6500, ProbDict(2000, 6500, 1500))
    /\ score < 4 => result[1] = Ok("Low", 8000, ProbDict(8000, 1500, 500))
    /\ result[1].confidence = result[1].probabilities[result[1].tier]
    /\ ProbSum(result[1]) = 10000

C11_Witness == Ruled /\ score = 8 /\ result[1].tier = "High"

\* C12 as stated: the baseline record with oxygen_saturation lowered to 85
\* is classified High with a score of at least 8.
C12_SpO2_85_High ==
  (Ruled /\ vitals[1] = BaselineSpO2_85) =>
    (result[1].tier = "High" /\ score >= 8)

\* C12 amended: the baseline record with oxygen_saturation lowered to 85
\* scores 4, the SpO2 rule alone, and is classified Medium.
C12_SpO2_85_Medium ==
  (Ruled /\ vitals[1] = BaselineSpO2_85) =>
    (result[1] = Ok("Medium", 6500, ProbDict(2000, 6500, 1500)) /\ score = 4)

C12_Witness == Ruled /\ vitals[1] = BaselineSpO2_85 /\ result[1].kind = "ok"

\* C13: the baseline normal record scores 0 and is classified Low.
C13_BaselineLow ==
  (Ruled /\ vitals[1] = Baseline) => (result[1].tier = "Low" /\ score = 0)

C13_Witness == Ruled /\ vitals[1] = Baseline /\ result[1].kind = "ok"

\* the share of the score that one category contributed
SpO2Contribution ==
  score - ( TableRR(vitals[1].respiratory_rate) + TableSBP(vitals[1].systolic_bp)
          + TableHR(vitals[1].heart_rate) + TableTemp(vitals[1].temperature)
          + TableAVPU(vitals[1].consciousness) + TableO2(vitals[1].on_oxygen) )

RRContribution ==
  score - ( TableSpO2(vitals[1].oxygen_saturation) + TableSBP(vitals[1].systolic_bp)
          + TableHR(vitals[1].heart_rate) + TableTemp(vitals[1].temperature)
          + TableAVPU(vitals[1].consciousness) + TableO2(vitals[1].on_oxygen) )

\* C15: the thresholds are strict: oxygen_saturation 90 contributes 2,
\* oxygen_saturation 94 contributes 0, respiratory_rate 25 contributes 1.
C15_StrictBoundaries ==
  Ruled =>
    /\ vitals[1].oxygen_saturation = 90 => SpO2Contribution = 2
    /\ vitals[1].oxygen_saturation = 94 => SpO2Contribution = 0
    /\ vitals[1].respiratory_rate = 25 => RRContribution = 1

C15_Witness ==
  Ruled /\ vitals[1].oxygen_saturation = 90 /\ vitals[1].respiratory_rate = 25

\* C16: the record 28 / 88 / 3 / 90 / 130 / 39.5 / P / on oxygen scores
\* 3+4+1+1+1+3+1 = 14 and is classified High with confidence 80.0.
C16_SeedHighScores14 ==
  (Ruled /\ vitals[1] = SeedHigh) =>
    /\ score = 14
    /\ result[1].tier = "High"
    /\ result[1].confidence = 8000

C16_Witness == Ruled /\ vitals[1] = SeedHigh /\ result[1].kind = "ok"

\* the values a vital is moved to
MoveValues ==
  [respiratory_rate |-> {0, 5, 11, 12, 20, 21, 25, 26, 40, 60},
   oxygen_saturation |-> {50, 70, 89, 90, 93, 94, 95, 100},
   systolic_bp |-> {50, 89, 90, 99, 100, 140, 160, 161, 180, 181, 300},
   heart_rate |-> {20, 39, 40, 59, 60, 100, 101, 130, 131, 250},
   temperature |-> {300, 349, 350, 359, 360, 361, 375, 380, 381, 395, 396, 450}]

\* x lies further from the normal range lo..hi than a, on the same side
Further(lo, hi, a, x) == (a <= lo /\ x < a) \/ (a >= hi /\ x > a)

TierRank(tier) == CASE tier = "Low" -> 0 [] tier = "Medium" -> 1 [] tier = "High" -> 2

\* C14: with the other fields fixed, moving one of the five numeric vitals
\* further below its low bound or further above its high bound never lowers
\* the score, and so never lowers the tier.
C14_ScoreMonotone ==
  Ruled =>
    \A k \in DOMAIN MoveValues :
      \A x \in MoveValues[k] :
        Further(VITAL_RANGES[k][1], VITAL_RANGES[k][2], vitals[1][k], x) =>
          LET w == [vitals[1] EXCEPT ![k] = x]
          IN  /\ rule_score(w) >= score
              /\ TierRank(rule_based_predict(w).tier) >= TierRank(result[1].tier)

C14_Witness ==
  /\ Ruled
  /\ vitals[1].systolic_bp = 99
  /\ score = 1
  /\ rule_score([vitals[1] EXCEPT !.systolic_bp = 89]) = 3

Detected == pc[1] = "detected" /\ abnormal[1].kind = "ok"

\* the normal ranges as the spec states them, with their text
NormalTable ==
  [respiratory_rate |-> [lo |-> 12, hi |-> 20, text |-> "12-20"],
   oxygen_saturation |-> [lo |-> 95, hi |-> 100, text |-> "95-100"],
   systolic_bp |-> [lo |-> 90, hi |-> 140, text |-> "90-140"],
   heart_rate |-> [lo |-> 60, hi |-> 100, text |-> "60-100"],
   temperature |-> [lo |-> 361, hi |-> 375, text |-> "36.1-37.5"]]

\* C18: for each of the five vitals there is a `low` finding iff the value
\* is below the low bound, a `high` finding iff it is above the high bound,
\* and no entry otherwise; heart_rate 100 gives none, 101 gives `high` with
\* the normal range text "60-100".
C18_FindingsByRange ==
  Detected =>
    LET a == abnormal[1].abnormal
    IN  /\ \A k \in DOMAIN NormalTable :
             LET val == vitals[1][k]
                 n == NormalTable[k]
             IN  /\ (k \in DOMAIN a) <=> (val < n.lo \/ val > n.hi)
                 /\ val < n.lo =>
                      a[k] = [value |-> val, status |-> "low", normal |-> n.text]
                 /\ val > n.hi =>
                      a[k] = [value |-> val, status |-> "high", normal |-> n.text]
        /\ vitals[1].heart_rate = 100 => "heart_rate" \notin DOMAIN a
        /\ vitals[1].heart_rate = 101 =>
             a["heart_rate"] = [value |-> 101, status |-> "high", normal |-> "60-100"]

C18_Witness ==
  /\ Detected
  /\ vitals[1].heart_rate = 101
  /\ vitals[1].respiratory_rate = 20
  /\ vitals[1].temperature = 360
  /\ DOMAIN abnormal[1].abnormal = {"heart_rate", "temperature"}

\* C19: the findings are keyed by the five numeric vitals only, and changing
\* or dropping o2_scale, consciousness or on_oxygen never changes them.
C19_CategoricalExcluded ==
  Detected =>
    /\ DOMAIN abnormal[1].abnormal \subseteq DOMAIN NormalTable
    /\ \A o \in 0..5, c \in AVPU, x \in {0, 1} :
         check_abnormal_vitals([vitals[1] EXCEPT !.o2_scale = o,
                                                  !.consciousness = c,
                                                  !.on_oxygen = x]) = abnormal[1]
    /\ check_abnormal_vitals(
         [vitals[1] EXCEPT !.absent = {"o2_scale", "consciousness", "on_oxygen"}])
         = abnormal[1]

C19_Witness ==
  /\ Detected
  /\ vitals[1].o2_scale = 3
  /\ vitals[1].consciousness = "U"
  /\ vitals[1].on_oxygen = 1
  /\ DOMAIN abnormal[1].abnormal = {}

\* C20: a call never writes the record it was given, prediction and
\* detection never write the cached artifacts, an outcome changes only by
\* its own call, and what a caller holds from an earlier call is changed by
\* no call.
C20_NoSharedWrites ==
  [][\A t \in Threads :
       /\ (pc[t] # "idle" /\ pc'[t] # "idle") => vitals'[t] = vitals[t]
       /\ (  (pc[t] = "dispatch" /\ pc'[t] = "done")
           \/ (pc[t] = "done" /\ pc'[t] = "detected")) =>
            (cache' = cache /\ art' = art)
       /\ result'[t] # result[t] => pc'[t] # pc[t]
       /\ abnormal'[t] # abnormal[t] => pc'[t] # pc[t]
       /\ kept'[t] # kept[t] => (pc[t] # "idle" /\ pc'[t] = "idle")]_vars

C20_Witness ==
  /\ kept[1].has
  /\ kept[1].r.tier = "High"
  /\ kept[1].a.kind = "ok"
  /\ pc[1] = "dispatch"
  /\ pc[2] = "detected"
  /\ vitals[2] # kept[1].v
  /\ result[2].tier = "Medium"

\* the model's vector was turned into the returned triple
ModelTriple(t) ==
  /\ Returned(t)
  /\ out[t].called
  /\ ~out[t].raises
  /\ Len(out[t].probs) >= 3
  /\ \E i \in 1..3 : \A j \in 1..Len(out[t].probs) : out[t].probs[j] <= out[t].probs[i]

\* position of a tier in the order [Low, Medium, High]
TierIndex(tier) == IF tier = "Low" THEN 0 ELSE IF tier = "Medium" THEN 1 ELSE 2

\* C21: when the model answers, the tier is the class (0 Low, 1 Medium,
\* 2 High) holding the largest probability of the output, the first such
\* class on a tie; the confidence is that probability times 100; each
\* reported probability is its class probability times 100; so the
\* confidence is probabilities[tier] and no tier has a higher probability.
C21_TierIsArgmax ==
  \A t \in Threads :
    ModelTriple(t) =>
      LET p == out[t].probs
          i == TierIndex(result[t].tier)
      IN  /\ \A j \in 1..Len(p) : p[j] <= p[i + 1]
          /\ \A j \in 1..i : p[j] < p[i + 1]
          /\ result[t].confidence = p[i + 1] * 100
          /\ \A k \in Tiers : result[t].probabilities[k] = p[TierIndex(k) + 1] * 100
          /\ result[t].confidence = result[t].probabilities[result[t].tier]
          /\ \A k \in Tiers : result[t].probabilities[k] <= result[t].confidence

C21_Witness ==
  \E t \in Threads :
    /\ ModelTriple(t)
    /\ Len(out[t].probs) = 3
    /\ out[t].probs[1] < out[t].probs[2]
    /\ out[t].probs[2] = out[t].probs[3]
    /\ result[t].tier = "Medium"

\* two records that differ in consciousness only, both among V, P and U
DifferInVPU(v, w) ==
  /\ v.consciousness \in {"V", "P", "U"}
  /\ w.consciousness \in {"V", "P", "U"}
  /\ v.consciousness # w.consciousness
  /\ [v EXCEPT !.consciousness = "A"] = [w EXCEPT !.consciousness = "A"]

\* the record of this call was handed to the network
AskedModel(t) ==
  /\ Done(t)
  /\ art[t].model # None
  /\ art[t].scaler # None
  /\ reaches_inference(vitals[t], art[t].model, art[t].scaler)

\* C22: a call whose record differs from an earlier call's record only in
\* consciousness, both among V, P and U, hands the model the same 8-wide
\* input (flag 1 for each), gets the same inference outcome and, when the
\* model answers, returns the same triple; the rule-based classifier scores
\* V, P and U 1, 3 and 5 points, so it scores the two records differently.
C22_ConsciousnessCollapsed ==
  \A t \in Threads :
    (AskedModel(t) /\ kept[t].has /\ DifferInVPU(vitals[t], kept[t].v)) =>
      LET v == vitals[t]
          w == kept[t].v
          s == art[t].scaler
      IN  /\ final_input(v, s) = final_input(w, s)
          /\ final_input(v, s)[2] = 1
          /\ out[t] = net[final_input(w, s)]
          /\ ModelTriple(t) => result[t] = kept[t].r
          /\ \A r \in {v, w} :
               consciousness_score(r.consciousness) =
                 IF r.consciousness = "V" THEN 1
                 ELSE IF r.consciousness = "P" THEN 3 ELSE 5
          /\ rule_score(v) # rule_score(w)

C22_Witness ==
  /\ AskedModel(1)
  /\ ModelTriple(1)
  /\ kept[1].has
  /\ vitals[1].consciousness = "U"
  /\ kept[1].v.consciousness = "V"
  /\ DifferInVPU(vitals[1], kept[1].v)
  /\ result[1].tier = "High"
  /\ rule_based_predict(vitals[1]).tier = "Medium"

LoggedOut ==
  /\ DOMAIN session \cap {"logged_in", "user_id", "username", "full_name", "role", "email"} = {}
  /\ ~is_logged_in(session)
  /\ get_current_user(session) = <<>>

\* the step is a call of the named function
CallOf(name) == ret'.call = name /\ users' = users

\* C23: after logout_user none of the six login keys is left, is_logged_in()
\* is false and get_current_user() is None; the call writes one 'logout' row
\* of the session's user_id when the session held one and nothing otherwise,
\* so a logout right after a logout writes nothing; every 'logout' row comes
\* after a 'login' row of the same user.
C23_LogoutClears ==
  /\ [](ret.call = "logout_user" => LoggedOut)
  /\ [](\A i \in 1..Len(login_logs) :
          login_logs[i].action = "logout" =>
            \E j \in 1..(i - 1) :
              /\ login_logs[j].action = "login"
              /\ login_logs[j].user_id = login_logs[i].user_id)
  /\ [][CallOf("logout_user") =>
          /\ "user_id" \in DOMAIN session =>
               login_logs' = Append(login_logs,
                                    [id |-> Len(login_logs) + 1,
                                     user_id |-> session["user_id"],
                                     action |-> "logout"])
          /\ "user_id" \notin DOMAIN session => login_logs' = login_logs
          /\ ret.call = "logout_user" => login_logs' = login_logs]_vars

C23_Witness ==
  /\ ret.call = "logout_user"
  /\ Len(login_logs) = 3
  /\ login_logs[1].action = "login"
  /\ login_logs[2].action = "login"
  /\ login_logs[2].user_id # login_logs[1].user_id
  /\ login_logs[3].action = "logout"
  /\ login_logs[3].user_id = login_logs[2].user_id
  /\ LoggedOut

\* the active row of the user name whose stored hash was made of the password
Matches(username, password) ==
  {i \in 1..Len(users) :
     /\ users[i].username = username
     /\ users[i].is_active = 1
     /\ \E n \in 1..Len(SeedUsers) :
          /\ SeedUsers[n].username = username
          /\ SeedUsers[n].password = password}

\* C24: login_user succeeds iff an active user of that name exists and the
\* password is the one its stored hash was made of; a failing call leaves
\* the session and login_logs as they were; a successful call sets the six
\* session keys from that one row and writes exactly one 'login' row.
C24_LoginAllOrNothing ==
  [][CallOf("login_user") =>
       LET username == ret'.args[1]
           password == ret'.args[2]
           m == Matches(username, password)
       IN  /\ ret'.ok <=> (username # "" /\ password # "" /\ m # {})
           /\ ~ret'.ok => (session' = session /\ login_logs' = login_logs)
           /\ ret'.ok =>
                \E i \in m :
                  /\ session'["logged_in"] = TRUE
                  /\ session'["user_id"] = users[i].id
                  /\ session'["username"] = users[i].username
                  /\ session'["full_name"] = users[i].full_name
                  /\ session'["role"] = users[i].role
                  /\ session'["email"] = users[i].email
                  /\ \A k \in DOMAIN session \ keys_to_clear :
                       k \in DOMAIN session' /\ session'[k] = session[k]
                  /\ login_logs' = Append(login_logs,
                                          [id |-> Len(login_logs) + 1,
                                           user_id |-> users[i].id,
                                           action |-> "login"])]_vars

C24_Witness ==
  /\ ret.call = "login_user"
  /\ ~ret.ok
  /\ ret.args = <<"patient1", "pass123">>
  /\ users[1].is_active = 0
  /\ is_logged_in(session)
  /\ session["username"] = "admin"
  /\ Len(login_logs) = 1

\* the page functions of a role
PageFunctions(role) ==
  IF role = "patient"
    THEN {"page_assess", "page_patient_dashboard", "page_patient_history"}
  ELSE IF role = "doctor"
    THEN {"page_doctor_home", "page_doctor_patients", "page_doctor_search"}
  ELSE IF role = "admin"
    THEN {"page_admin_dashboard", "page_all_patients", "page_audit_logs"}
  ELSE {}

\* the page keys of a role
PageKeys(role) ==
  IF role = "patient" THEN {"assess", "dashboard", "history"}
  ELSE IF role = "doctor" THEN {"doctor_home", "patients", "search"}
  ELSE IF role = "admin" THEN {"admin", "all_patients", "audit"}
  ELSE {}

\* C25: a script run of main that starts with no user logged in calls the
\* login page and nothing else; one that starts with a user logged in calls
\* at most one page function, one of that user's role, whatever current_page
\* holds.
C25_RoleIsolation ==
  [][IF ~is_logged_in(session)
       THEN shown'.page = "page_login" /\ shown'.as = "nobody"
       ELSE /\ shown'.as = session["role"]
            /\ shown'.page \in PageFunctions(session["role"]) \cup {"nothing"}]_vars

C25_Witness ==
  /\ is_logged_in(session)
  /\ session["role"] = "doctor"
  /\ "current_page" \in DOMAIN session
  /\ session["current_page"] = "assess"
  /\ shown = [page |-> "nothing", as |-> "doctor", rerun |-> FALSE]

\* C26: whenever a user is logged in and main has rendered for that user,
\* current_page is a page key of the user's role and main called a page
\* function.
C26_PageOfRole ==
  (is_logged_in(session) /\ shown.as = session["role"] /\ ~shown.rerun) =>
    /\ "current_page" \in DOMAIN session
    /\ session["current_page"] \in PageKeys(session["role"])
    /\ shown.page \in PageFunctions(session["role"])

\* the tables satisfy the uniqueness and the patient-profile rule
TablesConsistent ==
  /\ \A i, j \in 1..Len(users) :
       i # j => /\ users[i].username # users[j].username
                /\ users[i].email # users[j].email
                /\ users[i].id # users[j].id
  /\ \A i \in 1..Len(users) :
       Cardinality({p \in 1..Len(patients) : patients[p].user_id = users[i].id}) =
         IF users[i].role = "patient" THEN 1 ELSE 0
  /\ \A p \in 1..Len(patients) :
       \E i \in 1..Len(users) : users[i].id = patients[p].user_id

\* the form input that validate_registration turns down
InvalidForm(a) ==
  \/ Len(a[1]) < 3
  \/ Len(a[2]) < 6
  \/ a[2] # a[3]
  \/ \A i \in 1..Len(a[4]) : a[4][i] = " "
  \/ "@" \notin {a[5][i] : i \in 1..Len(a[5])}
  \/ "." \notin {a[5][i] : i \in 1..Len(a[5])}
  \/ a[6] \notin {"patient", "doctor", "admin"}

\* C27: no two users rows share a username or an email, a user has one
\* patients row when its role is patient and none otherwise; a create_user
\* call that returns False leaves users and patients as they were; a
\* register_user call with invalid form input does not reach create_user
\* and changes neither table.
C27_UsersConsistent ==
  /\ []TablesConsistent
  /\ [][(ret'.call = "create_user" /\ ~ret'.ok) =>
          (users' = users /\ patients' = patients)]_vars
  /\ [][(ret'.call = "register_user" /\ InvalidForm(ret'.args)) =>
          /\ ~ret'.ok
          /\ "create_user" \notin ret'.via
          /\ users' = users
          /\ patients' = patients]_vars

C27_Witness ==
  /\ Len(users) = 1
  /\ users[1].role = "patient"
  /\ Len(patients) = 1
  /\ ret.call = "create_user"
  /\ ~ret.ok
  /\ ret.message = "Email already exists"

\* C28: a row is stored only by a submitted form whose predict_risk call
\* has returned, one row per form, appended under the logged-in user's id
\* with the submitted vitals and with the tier and confidence that call
\* returned; every stored row has risk_level Low, Medium or High.
C28_SavedAsPredicted ==
  /\ [](\A i \in 1..Len(assessments) : assessments[i].risk_level \in Tiers)
  /\ [][assessments' # assessments =>
          /\ pc[1] = "detected"
          /\ result[1].kind = "ok"
          /\ Len(assessments') = Len(assessments) + 1
          /\ \A i \in 1..Len(assessments) : assessments'[i] = assessments[i]
          /\ LET row == assessments'[Len(assessments')]
             IN  /\ row.patient_id = session["user_id"]
                 /\ \A k \in Keys : row[k] = vitals[1][k]
                 /\ row.risk_level = result[1].tier
                 /\ row.risk_score = result[1].confidence]_vars
  /\ [][(pc[1] = "detected" /\ pc'[1] = "idle") =>
          Len(assessments') = Len(assessments) + 1]_vars

C28_Witness ==
  /\ Len(assessments) = 2
  /\ assessments[1].patient_id # assessments[2].patient_id
  /\ assessments[2].respiratory_rate = 28
  /\ assessments[2].risk_level = "Medium"
  /\ assessments[1].oxygen_saturation = 85

\* C29: a record with consciousness 'A' for which check_abnormal_vitals
\* reports no finding is classified Low by the rule-based classifier, for
\* on_oxygen 0 and 1: its score is 1 for a systolic_bp in 90..99 plus 1 for
\* on_oxygen, and nothing else.
C29_NoFindingIsLow ==
  (Detected /\ DOMAIN abnormal[1].abnormal = {} /\ vitals[1].consciousness = "A") =>
    /\ result[1].kind = "ok"
    /\ result[1].tier = "Low"
    /\ score = (IF vitals[1].systolic_bp \in 90..99 THEN 1 ELSE 0)
             + (IF vitals[1].on_oxygen = 1 THEN 1 ELSE 0)
    /\ result[1] = rule_based_predict([vitals[1] EXCEPT !.on_oxygen = 1 - @])

C29_Witness ==
  /\ Detected
  /\ DOMAIN abnormal[1].abnormal = {}
  /\ vitals[1].consciousness = "A"
  /\ vitals[1].systolic_bp = 90
  /\ vitals[1].on_oxygen = 1
  /\ score = 2
  /\ result[1].tier = "Low"

\* the contributions of the seven categories to the score of a record
Contributions(v) ==
  <<rr_score(v.respiratory_rate), spo2_score(v.oxygen_saturation),
    sbp_score(v.systolic_bp), hr_score(v.heart_rate), temp_score(v.temperature),
    consciousness_score(v.consciousness), on_oxygen_score(v.on_oxygen)>>

\* C30: the rule-based score lies in 0..22, a single category contributes
\* at most 5 points, and a record classified High has at least two
\* categories with a non-zero contribution.
C30_HighNeedsTwo ==
  Ruled =>
    LET c == Contributions(vitals[1])
    IN  /\ score \in 0..22
        /\ \A i \in 1..7 : c[i] \in 0..5
        /\ c[1] + c[2] + c[3] + c[4] + c[5] + c[6] + c[7] = score
        /\ result[1].tier = "High" =>
             Cardinality({i \in 1..7 : c[i] # 0}) >= 2

C30_Witness ==
  /\ Ruled
  /\ result[1].tier = "High"
  /\ score = 8
  /\ Cardinality({i \in 1..7 : Contributions(vitals[1])[i] # 0}) = 2
  /\ vitals[1].consciousness = "U"

====
